---- MODULE Spec2Model ----
(***************************************************************************)
(* Model of the delegated-transaction scheduler module                     *)
(* (src/scheduler/src/lib.rs): the storage maps TasksByBlock and           *)
(* NextNonce, the public functions schedule_task and inc_account_nonce and *)
(* the per-block hook offchain_worker, step by step, together with the two *)
(* outbound interfaces of the hook (the dispatch of a task's method, which *)
(* may call back into the module, and the deposited events); and of the    *)
(* trust-fund module (src/trust-fund/src/lib.rs): its storage maps and the *)
(* calls set_beneficiaries, set_living_switch_condition, clock_in and      *)
(* withdraw.                                                               *)
(***************************************************************************)
EXTENDS Integers, Sequences, FiniteSets, TLC

\* ---------------------------------------------------------------- bounds
MaxHeight == 1          \* block numbers 0..MaxHeight
MaxNonce  == 1          \* nonces a caller may present: 0..MaxNonce
MaxTasks  == 2          \* bumps of a nonce (admissions, direct calls) over a behaviour

MaxFundBlock == 2       \* trust-fund: the chain grows to this block number
MaxCondArg   == 1       \* trust-fund: arguments of a condition, 0..MaxCondArg
MaxBalance   == 2       \* trust-fund: asset balances, 0..MaxBalance

\* "a config how many tasks at most to execute in one block" (design notes);
\* the code defines no such config, the value is the smallest a batch can have
max_tasks_per_height == 1

\* ----------------------------------------------------------------- types
AccountId   == {"alice", "bob"}
Call        == {"m1"}
BlockNumber == 0..MaxHeight
Index       == 0..MaxNonce

\* struct Task { method, sender, nonce, block_number }
Task == [method : Call, sender : AccountId, nonce : Index, block_number : BlockNumber]

\* Option<Vec<_>> of the storage map TasksByBlock: None is the empty tuple,
\* Some(v) the one-element tuple holding the vector v
None == <<>>
Some(v) == <<v>>

VARIABLES
    TasksByBlock,   \* map BlockNumber => Option<Vec<Task>>
    NextNonce,      \* map AccountId => Index (default 0)
    events,         \* events deposited so far, oldest first
    sink,           \* calls of method.dispatch(origin) so far, oldest first
    admitted,       \* tasks for which schedule_task returned Ok, oldest first
    taken,          \* the takes of a vector by offchain_worker so far: the
                    \* block number and the number of tasks admitted for that
                    \* block number before the take
    last,           \* the call that returned in the last step, if one did
    bumps,          \* direct calls of inc_account_nonce so far, per account
    current_block,  \* <system::Module<T>>::block_number() of the host chain
    frame,          \* the locals of the offchain_worker call that is running
    callers,        \* the locals of the offchain_worker calls that wait in a
                    \* dispatch for the running one, the outermost first
    Beneficiaries,      \* trust-fund: map AccountId => Vec<BeneficiaryShare>
    LivingSwitchConds,  \* trust-fund: map AccountId => LivingSwitchCond
    LastClockIn,        \* trust-fund: map AccountId => BlockNumber (default 0)
    fund_last           \* trust-fund: the last call, its result and its effects

\* the storage and the observations of the trust-fund module
fundVars == <<Beneficiaries, LivingSwitchConds, LastClockIn, fund_last>>

vars == <<TasksByBlock, NextNonce, events, sink, admitted, taken, last, bumps,
          current_block, frame, callers, fundVars>>

\* ------------------------------------------------------------- helpers
\* <NextNonce<T>>::get(&who)
next_nonce(who) == NextNonce[who]

\* variants of inc_account_nonce: a bump by two, and a bump that is lost
inc_account_nonce_by_two(who) ==
    [NextNonce EXCEPT ![who] = next_nonce(who) + 2]

inc_account_nonce_lost(who) ==
    [NextNonce EXCEPT ![who] = next_nonce(who)]

\* the map NextNonce after inc_account_nonce(who)
inc_account_nonce(who) ==
    [NextNonce EXCEPT ![who] = next_nonce(who) + 1]

\* variant of the nonce test: any nonce up to the stored one passes
ValidNonce_le(task) == task.nonce <= next_nonce(task.sender)

\* the test of the presented nonce against the stored one
ValidNonce(task) == task.nonce = next_nonce(task.sender)

\* variant of the key: every task is filed under key 0
KeyOf_zero(task) == 0

\* the key of TasksByBlock a task is filed under: let block_number = task.block_number
KeyOf(task) == task.block_number

\* variant of the push: the vector already stored is dropped
PushTask_overwrite(bucket, task) == <<task>>

\* variant of the push: the task goes to the front of the vector
PushTask_front(bucket, task) ==
    IF bucket # None THEN <<task>> \o bucket[1] ELSE <<task>>

\* the vector stored back under task.block_number:
\* the taken vector with the task pushed, or vec!(task)
PushTask(bucket, task) ==
    IF bucket # None THEN Append(bucket[1], task) ELSE <<task>>

\* variant of the take: every vector is removed, not only the block's
TakeBucket_all(block_number) == [h \in BlockNumber |-> None]

\* variant of the take: a get, which leaves the vector in storage
TakeBucket_get(block_number) == TasksByBlock

\* the map TasksByBlock after <TasksByBlock<T>>::take(&block_number)
TakeBucket(block_number) ==
    [TasksByBlock EXCEPT ![block_number] = None]

\* variant of the loop: after a dispatch that fails the rest of the local
\* vector is dropped
AfterDispatch_stop_at_err(fr, ok) ==
    [fr EXCEPT !.results = Append(@, ok), !.dispatching = FALSE,
               !.tasks = IF ok THEN @ ELSE SubSeq(@, 1, Len(fr.results) + 1)]

\* the locals of offchain_worker after one iteration of the for_each: the
\* loop moves on to the next task whatever the dispatch returned
AfterDispatch(fr, ok) ==
    [fr EXCEPT !.results = Append(@, ok), !.dispatching = FALSE]

\* variant of the event: TaskExecutedOk whatever the dispatch returned
EventOf_always_ok(ok, block_number, t) ==
    [kind   |-> "TaskExecutedOk",
     block_number |-> block_number,
     who    |-> t.sender,
     nonce  |-> t.nonce,
     method |-> t.method]

\* the event deposited for one dispatched task
EventOf(ok, block_number, t) ==
    [kind   |-> IF ok THEN "TaskExecutedOk" ELSE "TaskExecutedErr",
     block_number |-> block_number,
     who    |-> t.sender,
     nonce  |-> t.nonce,
     method |-> t.method]

\* the call method.dispatch(Signed(sender)) made for one task
DispatchOf(block_number, t) ==
    [method |-> t.method, origin |-> t.sender, task |-> t, at |-> block_number]

\* no offchain_worker call is in progress
NoFrame == [active |-> FALSE, height |-> 0, tasks |-> <<>>, results |-> <<>>,
            dispatching |-> FALSE, sink0 |-> 0, admitted0 |-> 0]

\* no call returned in the last step
NoCall == [op |-> "none", task |-> <<>>, who |-> <<>>, nonce |-> <<>>, height |-> <<>>,
           result |-> "none", batch |-> <<>>, outcomes |-> <<>>]

\* trust-fund: no call has been made in the current block
NoFundCall == [op |-> "none", grantor |-> <<>>, result |-> "none",
               total_amount |-> 0, timestamp |-> 0, build |-> "none",
               transfers |-> <<>>, events |-> <<>>]

\* enum LivingSwitchCond { None, BlockHeight(n), Timestamp(m), ClockInInterval(n) };
\* Default is None
CondNone == [kind |-> "None", arg |-> 0]

\* ------------------------------------------------------ trust-fund types
AssetId == {"asset"}
Balance == 0..MaxBalance
Moment  == 0..(MaxCondArg + 1)

\* the accounts that act as grantor (set up a fund and clock in); a
\* withdrawal may name any account
Grantor == {"alice"}

\* the conditions a caller may set
LivingSwitchCond ==
    {CondNone} \cup
    [kind : {"BlockHeight", "Timestamp", "ClockInInterval"}, arg : 0..MaxCondArg]

\* the vectors of BeneficiaryShare { address, weight } a caller may set
ShareVecs ==
    { <<>>,
      <<[address |-> "bob", weight |-> 0]>>,
      <<[address |-> "bob", weight |-> 1]>>,
      <<[address |-> "bob", weight |-> 1], [address |-> "alice", weight |-> 2]>> }

\* variants of check_withdrawable: None lets the withdrawal through; the
\* clock-in interval is compared with >= instead of >
check_withdrawable_none_ok(granter, cond, timestamp) ==
    CASE cond.kind = "None" -> TRUE
      [] cond.kind = "BlockHeight" -> current_block > cond.arg
      [] cond.kind = "Timestamp" -> cond.arg > timestamp
      [] cond.kind = "ClockInInterval" ->
             (current_block - LastClockIn[granter]) > cond.arg

check_withdrawable_ge(granter, cond, timestamp) ==
    CASE cond.kind = "None" -> FALSE
      [] cond.kind = "BlockHeight" -> current_block > cond.arg
      [] cond.kind = "Timestamp" -> cond.arg > timestamp
      [] cond.kind = "ClockInInterval" ->
             (current_block - LastClockIn[granter]) >= cond.arg

\* fn check_withdrawable(granter, cond) -> Ok(bool); timestamp is what
\* <timestamp::Module<T>>::get() returns
check_withdrawable(granter, cond, timestamp) ==
    CASE cond.kind = "None" -> FALSE
      [] cond.kind = "BlockHeight" -> current_block > cond.arg
      [] cond.kind = "Timestamp" -> cond.arg > timestamp
      [] cond.kind = "ClockInInterval" ->
             (current_block - LastClockIn[granter]) > cond.arg

\* beneficiaries.iter().fold(0_u64, |acc, b| acc + b.weight)
RECURSIVE total_weight(_)
total_weight(beneficiaries) ==
    IF beneficiaries = <<>> THEN 0
    ELSE beneficiaries[1].weight + total_weight(Tail(beneficiaries))

\* Perbill is code of sr_primitives, which is not part of the sources: the
\* releases of it differ, and which one the build takes is not fixed here.
\* "truncating": from_rational_approximation divides by q as it is and
\* Perbill * amount rounds down; "rounding": q is taken as at least 1 and
\* Perbill * amount rounds to the nearest
PerbillBuilds == {"truncating", "rounding"}

\* Perbill::from_rational_approximation(p, q) panics: a division by zero
PerbillPanics(build, q) == build = "truncating" /\ q = 0

\* Perbill::from_rational_approximation(p, q), in parts per billion, when it
\* returns: q at least 1, p at most q, p * 10^9 / q rounded down
PerbillFromRational(p, q) ==
    LET qq == IF q < 1 THEN 1 ELSE q
        pp == IF p > qq THEN qq ELSE p
    IN pp * (1000000000 \div qq) + (pp * (1000000000 % qq)) \div qq

\* Perbill * amount: amount * parts / 10^9, rounded down or to the nearest
\* (the product is split so that it stays below 2^31)
PerbillMul(build, parts, amount) ==
    LET ph    == parts \div 100000
        pl    == parts % 100000
        hi    == amount * ph
        lo    == amount * pl
        whole == (hi + lo \div 100000) \div 10000
        rest  == ((hi + lo \div 100000) % 10000) * 100000 + (lo % 100000)
    IN IF build = "rounding" /\ rest > 500000000 THEN whole + 1 ELSE whole

\* fn calc_shares(amount, beneficiaries) -> Vec<(AccountId, Balance)>, when
\* from_rational_approximation returns
calc_shares(build, amount, beneficiaries) ==
    [i \in 1..Len(beneficiaries) |->
        [account |-> beneficiaries[i].address,
         amount  |-> PerbillMul(build,
                                PerbillFromRational(beneficiaries[i].weight,
                                                    total_weight(beneficiaries)),
                                amount)]]

\* ---------------------------------------------------------------- Init
Init ==
    /\ TasksByBlock = [h \in BlockNumber |-> None]
    /\ NextNonce = [a \in AccountId |-> 0]
    /\ events = <<>>
    /\ sink = <<>>
    /\ admitted = <<>>
    /\ taken = {}
    /\ last = NoCall
    /\ bumps = [a \in AccountId |-> 0]
    /\ current_block = 0
    /\ frame = NoFrame
    /\ callers = <<>>
    /\ Beneficiaries = [a \in AccountId |-> <<>>]
    /\ LivingSwitchConds = [a \in AccountId |-> CondNone]
    /\ LastClockIn = [a \in AccountId |-> 0]
    /\ fund_last = NoFundCall

\* ------------------------------------------------------------- actions
\* the bumps of a nonce made so far: the admissions and the direct calls of
\* inc_account_nonce, which the callers cap over a whole behaviour
RECURSIVE SumOver(_, _)
SumOver(f, S) ==
    IF S = {} THEN 0
    ELSE LET a == CHOOSE x \in S : TRUE IN f[a] + SumOver(f, S \ {a})

BumpsSoFar == Len(admitted) + SumOver(bumps, AccountId)

\* variant of schedule_task: the nonce is bumped before it is tested
schedule_task_bump_first(task) ==
    IF ~ValidNonce(task)
    THEN /\ NextNonce' = inc_account_nonce(task.sender)
         /\ last' = [NoCall EXCEPT !.op = "schedule_task",
                                   !.who = <<task.sender>>, !.nonce = <<task.nonce>>,
                                   !.result = "invalid nonce"]
         /\ UNCHANGED <<TasksByBlock, events, sink, admitted, taken, bumps>>
         /\ UNCHANGED <<current_block, frame, callers, fundVars>>
    ELSE /\ NextNonce' = inc_account_nonce(task.sender)
         /\ TasksByBlock' = [TasksByBlock EXCEPT ![KeyOf(task)] =
                                Some(PushTask(TasksByBlock[KeyOf(task)], task))]
         /\ admitted' = Append(admitted, task)
         /\ last' = [NoCall EXCEPT !.op = "schedule_task", !.task = <<task>>,
                                   !.who = <<task.sender>>, !.nonce = <<task.nonce>>,
                                   !.result = "Ok"]
         /\ UNCHANGED <<events, sink, taken, bumps>>
         /\ UNCHANGED <<current_block, frame, callers, fundVars>>

\* pub fn schedule_task(task) -> Result; a call that is rejected has read
\* the sender and the nonce of the task and nothing else
schedule_task(task) ==
    IF ~ValidNonce(task)
    THEN /\ last' = [NoCall EXCEPT !.op = "schedule_task",
                                   !.who = <<task.sender>>, !.nonce = <<task.nonce>>,
                                   !.result = "invalid nonce"]
         /\ UNCHANGED <<TasksByBlock, NextNonce, events, sink, admitted, taken, bumps>>
         /\ UNCHANGED <<current_block, frame, callers, fundVars>>
    ELSE /\ NextNonce' = inc_account_nonce(task.sender)
         /\ TasksByBlock' = [TasksByBlock EXCEPT ![KeyOf(task)] =
                                Some(PushTask(TasksByBlock[KeyOf(task)], task))]
         /\ admitted' = Append(admitted, task)
         /\ last' = [NoCall EXCEPT !.op = "schedule_task", !.task = <<task>>,
                                   !.who = <<task.sender>>, !.nonce = <<task.nonce>>,
                                   !.result = "Ok"]
         /\ UNCHANGED <<events, sink, taken, bumps>>
         /\ UNCHANGED <<current_block, frame, callers, fundVars>>

\* a call into the module is made from outside while no offchain_worker is
\* running, or by the method that offchain_worker is dispatching
CallAllowed == frame.active => frame.dispatching

\* schedule_task called from outside, or by the method being dispatched, as
\* long as fewer than MaxTasks bumps of a nonce have been made
call_schedule_task(task) ==
    /\ CallAllowed
    /\ ValidNonce(task) => BumpsSoFar < MaxTasks
    /\ schedule_task(task)

\* pub fn inc_account_nonce(who) called on its own, from outside or by the
\* method being dispatched
call_inc_account_nonce(who) ==
    /\ CallAllowed
    /\ BumpsSoFar < MaxTasks
    /\ NextNonce' = inc_account_nonce(who)
    /\ bumps' = [bumps EXCEPT ![who] = @ + 1]
    /\ last' = [NoCall EXCEPT !.op = "inc_account_nonce", !.who = <<who>>,
                              !.result = "()"]
    /\ UNCHANGED <<TasksByBlock, events, sink, admitted, taken>>
    /\ UNCHANGED <<current_block, frame, callers, fundVars>>

\* the number of tasks with this block number among the first n admitted
AdmittedFor(block_number, n) ==
    Cardinality({k \in 1..n : admitted[k].block_number = block_number})

\* fn offchain_worker(block_number), step by step, since every dispatch hands
\* control to the task's method. First step: the take of the block's vector
\* into the local tasks, or the return on None. The hook is called from
\* outside or by the method being dispatched; the call that is running then
\* waits in its dispatch
ow_take(block_number) ==
    /\ CallAllowed
    /\ IF TasksByBlock[block_number] = None
       THEN /\ last' = [NoCall EXCEPT !.op = "offchain_worker",
                                      !.height = <<block_number>>, !.result = "()"]
            /\ UNCHANGED <<TasksByBlock, taken, frame, callers>>
       ELSE /\ TasksByBlock' = TakeBucket(block_number)
            /\ taken' = taken \cup {<<block_number,
                                       AdmittedFor(block_number, Len(admitted))>>}
            /\ frame' = [NoFrame EXCEPT !.active = TRUE, !.height = block_number,
                                        !.tasks = TasksByBlock[block_number][1],
                                        !.sink0 = Len(sink),
                                        !.admitted0 = Len(admitted)]
            /\ callers' = IF frame.active THEN Append(callers, frame) ELSE callers
            /\ last' = NoCall
    /\ UNCHANGED <<NextNonce, events, sink, admitted, bumps, fundVars>>

\* one iteration of the for_each, first half: method.dispatch(origin) is
\* called for the next task of the local vector
ow_dispatch_begin ==
    /\ frame.active
    /\ ~frame.dispatching
    /\ Len(frame.results) < Len(frame.tasks)
    /\ sink' = Append(sink, DispatchOf(frame.height,
                                       frame.tasks[Len(frame.results) + 1]))
    /\ frame' = [frame EXCEPT !.dispatching = TRUE]
    /\ last' = NoCall
    /\ UNCHANGED <<TasksByBlock, NextNonce, events, admitted, taken, bumps, callers,
                   current_block, fundVars>>

\* second half: the dispatch returns Ok or Err and the event is deposited
ow_dispatch_end ==
    /\ frame.active
    /\ frame.dispatching
    /\ \E ok \in BOOLEAN :
          /\ events' = Append(events,
                              EventOf(ok, frame.height,
                                      frame.tasks[Len(frame.results) + 1]))
          /\ frame' = AfterDispatch(frame, ok)
    /\ last' = NoCall
    /\ UNCHANGED <<TasksByBlock, NextNonce, sink, admitted, taken, bumps, callers,
                   current_block, fundVars>>

\* the end of the for_each: offchain_worker returns, to the call that waits
\* for it when there is one
ow_return ==
    /\ frame.active
    /\ ~frame.dispatching
    /\ Len(frame.results) = Len(frame.tasks)
    /\ frame' = IF callers = <<>> THEN NoFrame ELSE callers[Len(callers)]
    /\ callers' = IF callers = <<>> THEN <<>> ELSE SubSeq(callers, 1, Len(callers) - 1)
    /\ last' = [NoCall EXCEPT !.op = "offchain_worker",
                              !.height = <<frame.height>>, !.result = "()",
                              !.batch = SubSeq(frame.tasks, 1, Len(frame.results)),
                              !.outcomes = frame.results]
    /\ UNCHANGED <<TasksByBlock, NextNonce, events, sink, admitted, taken, bumps,
                   current_block, fundVars>>

\* the hook called for an arbitrary block number, from outside or by the
\* method being dispatched, the chain's height left as it is
call_offchain_worker(block_number) ==
    ow_take(block_number) /\ UNCHANGED current_block

Next ==
    \/ \E task \in Task : call_schedule_task(task)
    \/ \E who \in AccountId : call_inc_account_nonce(who)
    \/ \E block_number \in BlockNumber : call_offchain_worker(block_number)
    \/ ow_dispatch_begin
    \/ ow_dispatch_end
    \/ ow_return

Spec == Init /\ [][Next]_vars

\* the host imports the next block and calls the hook for it, once per height
import_block ==
    /\ ~frame.active
    /\ current_block < MaxHeight
    /\ current_block' = current_block + 1
    /\ ow_take(current_block + 1)

\* the hook called by the method being dispatched
nested_offchain_worker(block_number) ==
    /\ frame.active
    /\ call_offchain_worker(block_number)

NextLive ==
    \/ \E task \in Task : call_schedule_task(task)
    \/ \E who \in AccountId : call_inc_account_nonce(who)
    \/ import_block
    \/ \E block_number \in BlockNumber : nested_offchain_worker(block_number)
    \/ ow_dispatch_begin
    \/ ow_dispatch_end
    \/ ow_return

\* the hook is called for every height in turn as long as the chain grows,
\* and a call of the hook runs to its end
SpecLive ==
    /\ Init /\ [][NextLive]_vars
    /\ WF_vars(import_block)
    /\ WF_vars(ow_dispatch_begin) /\ WF_vars(ow_dispatch_end) /\ WF_vars(ow_return)

\* ------------------------------------------------- trust-fund actions
\* the storage and the observations of the scheduler module
schedulerVars == <<TasksByBlock, NextNonce, events, sink, admitted, taken, last, bumps,
                   frame, callers>>

\* fn set_beneficiaries(origin, option)
set_beneficiaries(origin, option) ==
    /\ Beneficiaries' = [Beneficiaries EXCEPT ![origin] = option]
    /\ fund_last' = [NoFundCall EXCEPT !.op = "set_beneficiaries",
                        !.grantor = <<origin>>, !.result = "Ok",
                        !.events = <<[kind |-> "BeneficiariesSet", who |-> origin]>>]
    /\ UNCHANGED <<LivingSwitchConds, LastClockIn, current_block, schedulerVars>>

\* fn clock_in(origin)
clock_in(origin) ==
    /\ LastClockIn' = [LastClockIn EXCEPT ![origin] = current_block]
    /\ fund_last' = [NoFundCall EXCEPT !.op = "clock_in",
                        !.grantor = <<origin>>, !.result = "Ok"]
    /\ UNCHANGED <<Beneficiaries, LivingSwitchConds, current_block, schedulerVars>>

\* fn set_living_switch_condition(origin, condition)
set_living_switch_condition(origin, condition) ==
    /\ LivingSwitchConds' = [LivingSwitchConds EXCEPT ![origin] = condition]
    /\ fund_last' = [NoFundCall EXCEPT !.op = "set_living_switch_condition",
                        !.grantor = <<origin>>, !.result = "Ok",
                        !.events = <<[kind |-> "LivingSwitchCondSet", who |-> origin]>>]
    /\ UNCHANGED <<Beneficiaries, LastClockIn, current_block, schedulerVars>>

\* fn withdraw(origin, grantor, asset_id); total_amount is what
\* assets::balance(asset_id, grantor) returns, timestamp what timestamp::get()
\* returns, build the release of Perbill; the origin is not looked at. A
\* panic of calc_shares comes before the first make_transfer
withdraw(grantor, asset_id, total_amount, timestamp, build) ==
    LET living_cond   == LivingSwitchConds[grantor]
        can_withdraw  == check_withdrawable(grantor, living_cond, timestamp)
        beneficiaries == Beneficiaries[grantor]
        shares        == calc_shares(build, total_amount, beneficiaries)
        call          == [NoFundCall EXCEPT !.op = "withdraw",
                             !.grantor = <<grantor>>,
                             !.total_amount = total_amount,
                             !.timestamp = timestamp,
                             !.build = build]
    IN /\ fund_last' =
            IF ~can_withdraw
            THEN [call EXCEPT !.result = "not withdrawable yet"]
            ELSE IF ~(total_amount > 0)
            THEN [call EXCEPT !.result = "no balance"]
            ELSE IF ~(Len(beneficiaries) > 0)
            THEN [call EXCEPT !.result = "no beneficiaries"]
            ELSE IF PerbillPanics(build, total_weight(beneficiaries))
            THEN [call EXCEPT !.result = "panic"]
            ELSE [call EXCEPT !.result = "Ok",
                     !.transfers = [i \in 1..Len(shares) |->
                                       [from |-> grantor, asset |-> asset_id,
                                        to |-> shares[i].account,
                                        amount |-> shares[i].amount]],
                     !.events = <<[kind |-> "Withdraw", who |-> grantor]>>]
       /\ UNCHANGED <<Beneficiaries, LivingSwitchConds, LastClockIn,
                      current_block, schedulerVars>>

\* the chain grows by one block
next_block ==
    /\ current_block < MaxFundBlock
    /\ current_block' = current_block + 1
    /\ fund_last' = NoFundCall
    /\ UNCHANGED <<Beneficiaries, LivingSwitchConds, LastClockIn, schedulerVars>>

NextFund ==
    \/ \E origin \in Grantor, option \in ShareVecs :
           set_beneficiaries(origin, option)
    \/ \E origin \in Grantor : clock_in(origin)
    \/ \E origin \in Grantor, condition \in LivingSwitchCond :
           set_living_switch_condition(origin, condition)
    \/ \E grantor \in AccountId, asset_id \in AssetId,
          total_amount \in Balance, timestamp \in Moment, build \in PerbillBuilds :
           withdraw(grantor, asset_id, total_amount, timestamp, build)
    \/ next_block

SpecFund == Init /\ [][NextFund]_vars

TypeOK ==
    /\ \A h \in BlockNumber : TasksByBlock[h] = None \/
                              (Len(TasksByBlock[h]) = 1 /\ TasksByBlock[h][1] \in Seq(Task))
    /\ NextNonce \in [AccountId -> Nat]
    /\ bumps \in [AccountId -> Nat]
    /\ taken \subseteq (BlockNumber \X (0..Len(admitted)))
    /\ frame.tasks \in Seq(Task) /\ frame.results \in Seq(BOOLEAN)
    /\ Len(frame.results) <= Len(frame.tasks)
    /\ frame.dispatching => frame.active
    /\ callers # <<>> => frame.active
    /\ \A k \in 1..Len(callers) : callers[k].active /\ callers[k].dispatching

\* ------------------------------------------------- vocabulary of the claims
\* the vector of an Option<Vec<_>>, empty for None
Vec(o) == IF o = None THEN <<>> ELSE o[1]

Range(s) == {s[i] : i \in 1..Len(s)}

\* the number of admitted tasks of account a
AdmittedOf(a) == Cardinality({i \in 1..Len(admitted) : admitted[i].sender = a})

\* the tasks handed to the execution sink so far, oldest first
Dispatched == [k \in 1..Len(sink) |-> sink[k].task]

\* the position of task t in the dispatch order (0 when never dispatched)
DispatchPos(t) ==
    IF t \in Range(Dispatched)
    THEN CHOOSE k \in 1..Len(sink) : sink[k].task = t
    ELSE 0

\* the tasks of s after its first n
DropFirst(s, n) == IF Len(s) <= n THEN <<>> ELSE SubSeq(s, n + 1, Len(s))

\* the offchain_worker calls in progress, the outermost first
AllFrames == callers \o (IF frame.active THEN <<frame>> ELSE <<>>)

\* the dispatches a call of offchain_worker with the locals f has begun
Begun(f) == Len(f.results) + (IF f.dispatching THEN 1 ELSE 0)

\* the dispatches the running offchain_worker call has begun
BegunInRun == IF frame.active THEN Begun(frame) ELSE 0

\* the tasks the offchain_worker calls in progress have taken and not yet
\* handed to the sink
HeldInRun ==
    UNION {Range(DropFirst(AllFrames[k].tasks, Begun(AllFrames[k]))) :
              k \in 1..Len(AllFrames)}

\* the dispatches that have not returned yet
OpenDispatches == Cardinality({k \in 1..Len(AllFrames) : AllFrames[k].dispatching})

\* --------------------------------------------------------------- claims

\* C1: schedule_task succeeds if and only if the presented nonce equals the
\* stored next nonce of the sender at the time of the call, and on success
\* the stored next nonce of the sender becomes the presented nonce plus one.
C1_AdmitIffExpectedNonce ==
    [][ last'.op = "schedule_task" =>
          LET a == last'.who[1]
              n == last'.nonce[1]
          IN /\ (last'.result = "Ok") <=> (n = NextNonce[a])
             /\ (last'.result = "Ok") => (NextNonce'[a] = n + 1) ]_vars

C1_Witness ==
    /\ last.op = "schedule_task"
    /\ last.result = "Ok"
    /\ last.task[1].nonce = 1
    /\ NextNonce[last.task[1].sender] = 2

\* C2: a schedule_task rejected with "invalid nonce" changes no stored
\* state: every next nonce and every bucket is as before the call.
C2_RejectionChangesNothing ==
    [][ (last'.op = "schedule_task" /\ last'.result = "invalid nonce") =>
          (NextNonce' = NextNonce /\ TasksByBlock' = TasksByBlock) ]_vars

C2_Witness ==
    /\ last.op = "schedule_task"
    /\ last.result = "invalid nonce"
    /\ last.nonce[1] < NextNonce[last.who[1]]
    /\ \E h \in BlockNumber : TasksByBlock[h] # None

\* C3: as long as nothing but schedule_task and offchain_worker has been
\* called for an account (inc_account_nonce was never called for it on its
\* own), its next nonce is the number of its schedule_task calls that
\* succeeded, and a schedule_task presenting a nonce below that number is
\* rejected.
C3_NonceCountsAdmissions ==
    /\ [](\A a \in AccountId : bumps[a] = 0 => NextNonce[a] = AdmittedOf(a))
    /\ [][ (last'.op = "schedule_task" /\
            last'.nonce[1] < AdmittedOf(last'.who[1])) =>
               last'.result = "invalid nonce" ]_vars

C3_Witness ==
    /\ last.op = "schedule_task"
    /\ last.result = "invalid nonce"
    /\ bumps[last.who[1]] = 0
    /\ AdmittedOf(last.who[1]) = 2
    /\ last.nonce[1] < 2
    /\ sink # <<>>

\* C4: no two admitted tasks, pending or dispatched, have the same
\* (sender, nonce) pair.
C4_AdmittedPairsUnique ==
    \A i, j \in 1..Len(admitted) :
        (admitted[i].sender = admitted[j].sender /\
         admitted[i].nonce = admitted[j].nonce) => i = j

C4_Witness ==
    \E i, j \in 1..Len(admitted) :
        /\ i < j
        /\ admitted[i].sender = admitted[j].sender
        /\ admitted[i] \in Range(Dispatched)
        /\ admitted[j] \notin Range(Dispatched)

\* C5: one call of offchain_worker dispatches at most max_tasks_per_height
\* tasks.
C5_CapRespected ==
    /\ frame.active => BegunInRun <= max_tasks_per_height
    /\ last.op = "offchain_worker" => Len(last.batch) <= max_tasks_per_height

\* C6: after offchain_worker(h) the bucket of height 0 holds the pending
\* sequence (the previous bucket 0 followed by the bucket of h) without its
\* first max_tasks_per_height tasks, in the same order. Stated over the step
\* in which a call from outside returns, for the calls during which no
\* dispatched method admitted a task or called the hook.
C6_CarryOverIsRemainder ==
    [][ (last'.op = "offchain_worker" /\ last'.height[1] # 0 /\ callers = <<>> /\
         (frame.active => (/\ frame' = NoFrame
                           /\ Len(admitted) = frame.admitted0
                           /\ Len(sink) = frame.sink0 + Len(frame.tasks)))) =>
          LET pending == Vec(TasksByBlock[0]) \o
                             (IF frame.active THEN frame.tasks ELSE <<>>)
          IN Vec(TasksByBlock'[0]) = DropFirst(pending, max_tasks_per_height) ]_vars

\* C7: in offchain_worker(h) every task carried over in bucket 0 is
\* dispatched before any task newly due at h. Stated over the step in which
\* a call from outside hands a task of bucket h to the sink, no dispatched
\* method having admitted a task or called the hook since the call began.
C7_CarryOverFirst ==
    [][ (frame.active /\ callers = <<>> /\ frame.height # 0 /\
         Len(sink') = Len(sink) + 1 /\
         Len(admitted) = frame.admitted0 /\
         Len(sink) = frame.sink0 + BegunInRun) =>
          \A c \in Range(Vec(TasksByBlock[0])) :
              \E k \in (frame.sink0 + 1)..Len(sink) : sink[k].task = c ]_vars

\* the offchain_worker calls for block number h that took the vector of h
\* after the i-th admission and before the j-th, both of them for h. (A call
\* for h that finds no vector after the i-th admission comes after such a
\* take.)
RunsBetween(h, i, j) ==
    {r \in taken : r[1] = h /\ AdmittedFor(h, i) <= r[2] /\ r[2] < AdmittedFor(h, j)}

\* C8: of two tasks admitted with the same block_number h, with no run of
\* height h between the two admissions (other admissions and runs of other
\* heights may lie between them), the one admitted first is dispatched first:
\* whenever the later one has been handed to the sink, the earlier one was
\* handed to it before.
C8_ArrivalOrderWithinHeight ==
    \A i, j \in 1..Len(admitted) :
        (i < j /\ admitted[i].block_number = admitted[j].block_number /\
         RunsBetween(admitted[i].block_number, i, j) = {} /\
         admitted[j] \in Range(Dispatched)) =>
            (admitted[i] \in Range(Dispatched) /\
             DispatchPos(admitted[i]) < DispatchPos(admitted[j]))

C8_Witness ==
    /\ Len(admitted) = 2
    /\ admitted[1].block_number = admitted[2].block_number
    /\ admitted[1].sender # admitted[2].sender
    /\ RunsBetween(admitted[1].block_number, 1, 2) = {}
    /\ last.op = "offchain_worker"
    /\ last.batch = <<admitted[1], admitted[2]>>
    /\ Len(sink) = 2
    /\ sink[1].task = admitted[1] /\ sink[2].task = admitted[2]

\* C9: a task is dispatched at most once, and a dispatched task is in no
\* bucket afterwards, also when offchain_worker is called again for the
\* same block number.
C9_DispatchedAtMostOnce ==
    /\ \A k, l \in 1..Len(sink) : sink[k].task = sink[l].task => k = l
    /\ \A h \in BlockNumber :
           Range(Vec(TasksByBlock[h])) \cap Range(Dispatched) = {}

C9_Witness ==
    /\ last.op = "offchain_worker"
    /\ last.batch = <<>>
    /\ \E k \in 1..Len(sink) : sink[k].at = last.height[1]

\* C10: when a dispatch of a batch fails, every later task of the batch is
\* still dispatched, the failed task is in no bucket afterwards, and no next
\* nonce changes: the step that reports the failure leaves the nonces and the
\* tasks still to dispatch as they are, and when the call returns every task
\* it took has been handed to the sink.
C10_FailureIsIsolated ==
    [][ /\ (events' # events /\ events'[Len(events')].kind = "TaskExecutedErr") =>
              /\ NextNonce' = NextNonce
              /\ frame.active /\ frame'.active
              /\ frame'.tasks = frame.tasks
              /\ callers' = callers
              /\ \A g \in BlockNumber :
                     frame.tasks[Len(frame.results) + 1]
                         \notin Range(Vec(TasksByBlock'[g]))
        /\ (last'.op = "offchain_worker" /\ last'.batch # <<>>) =>
              /\ frame.active
              /\ \A i \in 1..Len(frame.tasks) :
                     \E k \in (frame.sink0 + 1)..Len(sink) :
                         sink[k].task = frame.tasks[i] /\ sink[k].at = frame.height ]_vars

C10_Witness ==
    /\ last.op = "offchain_worker"
    /\ Len(last.batch) >= 2
    /\ ~last.outcomes[1]
    /\ events[Len(events) - 1].kind = "TaskExecutedErr"
    /\ events[Len(events)].kind = "TaskExecutedOk"

\* the tasks of account a in the buckets
PendingOf(a) ==
    {<<h, i>> \in BlockNumber \X (1..MaxTasks + 1) :
        i <= Len(Vec(TasksByBlock[h])) /\ Vec(TasksByBlock[h])[i].sender = a}

\* the events deposited for tasks of account a
EventsOf(a) == {k \in 1..Len(events) : events[k].who = a}

\* the places <<h, i>> of the buckets that hold task t
PlacesOf(t) ==
    {<<h, i>> \in BlockNumber \X (1..MaxTasks + 1) :
        i <= Len(Vec(TasksByBlock[h])) /\ Vec(TasksByBlock[h])[i] = t}

\* the tasks of account a that the offchain_worker calls in progress have
\* taken and for which no event has been deposited yet
UnreportedOf(a) ==
    {<<k, i>> \in (1..Len(AllFrames)) \X (1..MaxTasks + 2) :
        /\ i > Len(AllFrames[k].results)
        /\ i <= Len(AllFrames[k].tasks)
        /\ AllFrames[k].tasks[i].sender = a}

\* C11: offchain_worker deposits exactly one event for every task it
\* dispatches, in its dispatch order: TaskExecutedOk or TaskExecutedErr as the
\* dispatch returned, with the block number of the call and the task's own
\* sender, nonce and method; no other step deposits an event. The dispatches
\* without an event are those that have not returned yet.
C11_OneEventPerDispatch ==
    /\ [](Len(events) = Len(sink) - OpenDispatches)
    /\ [][ events' # events =>
              /\ frame.active /\ frame.dispatching
              /\ sink' = sink
              /\ Len(frame'.results) = Len(frame.results) + 1
              /\ LET t  == frame.tasks[Len(frame.results) + 1]
                     ok == frame'.results[Len(frame'.results)]
                 IN /\ \E k \in (frame.sink0 + 1)..Len(sink) :
                           sink[k].task = t /\ sink[k].at = frame.height
                    /\ events' = Append(events,
                           [kind   |-> IF ok THEN "TaskExecutedOk"
                                             ELSE "TaskExecutedErr",
                            block_number |-> frame.height,
                            who    |-> t.sender,
                            nonce  |-> t.nonce,
                            method |-> t.method]) ]_vars

C11_Witness ==
    /\ ~frame.active
    /\ last.op = "offchain_worker"
    /\ Len(sink) = 2 /\ Len(events) = 2
    /\ sink[1].at # sink[2].at
    /\ events[1].who = sink[2].task.sender
    /\ events[2].who = sink[1].task.sender
    /\ events[1].who # events[2].who
    /\ events[1].kind = "TaskExecutedErr"
    /\ events[2].kind = "TaskExecutedOk"

\* C12: no task is dispatched early: every dispatch of a task happens in a
\* call of offchain_worker for a block number not below the task's
\* block_number.
C12_NeverEarly ==
    \A k \in 1..Len(sink) : sink[k].at >= sink[k].task.block_number

C12_Witness ==
    /\ last.op = "offchain_worker"
    /\ last.height = <<MaxHeight>>
    /\ Len(last.batch) >= 1
    /\ \A k \in 1..Len(sink) : sink[k].task.block_number = MaxHeight

\* C14: the bucket of key 0 is reserved for carry-over: it holds only tasks
\* that were due at a block number of their own, and schedule_task never
\* places the task it admits into it.
C14_KeyZeroReserved ==
    /\ \A t \in Range(Vec(TasksByBlock[0])) : t.block_number # 0
    /\ (last.op = "schedule_task" /\ last.result = "Ok") =>
           last.task[1] \notin Range(Vec(TasksByBlock[0]))

\* C16: a successful schedule_task(task) changes the next nonce of
\* task.sender and the bucket of task.block_number, which becomes its
\* previous content with the task appended at the tail, and nothing else.
C16_AdmissionFrame ==
    [][ (last'.op = "schedule_task" /\ last'.result = "Ok") =>
          LET t == last'.task[1]
          IN /\ \A a \in AccountId \ {t.sender} : NextNonce'[a] = NextNonce[a]
             /\ \A h \in BlockNumber \ {t.block_number} :
                    TasksByBlock'[h] = TasksByBlock[h]
             /\ TasksByBlock'[t.block_number] # None
             /\ Vec(TasksByBlock'[t.block_number]) =
                    Append(Vec(TasksByBlock[t.block_number]), t)
             /\ events' = events
             /\ sink' = sink ]_vars

C16_Witness ==
    /\ last.op = "schedule_task"
    /\ last.result = "Ok"
    /\ Len(Vec(TasksByBlock[last.task[1].block_number])) = 2
    /\ Vec(TasksByBlock[last.task[1].block_number])[2] = last.task[1]
    /\ NextNonce[last.task[1].sender] = 1

\* C17 as the claim states it: for every account the next nonce is the number
\* of its tasks in the buckets plus the number of its tasks dispatched (one
\* event each); every admitted task is in a bucket or dispatched, and every
\* task in a bucket has a nonce below its sender's next nonce.
C17_NonceAccounting ==
    /\ \A a \in AccountId :
           NextNonce[a] = Cardinality(PendingOf(a)) + Cardinality(EventsOf(a))
    /\ \A i \in 1..Len(admitted) :
           admitted[i] \in Range(Dispatched) \/ PlacesOf(admitted[i]) # {}
    /\ \A h \in BlockNumber :
           \A t \in Range(Vec(TasksByBlock[h])) : t.nonce < NextNonce[t.sender]

\* C17 amended: for every account the next nonce is the number of its tasks
\* in the buckets, plus those the offchain_worker calls in progress have taken
\* and not yet reported, plus those reported (one event each), plus the
\* direct calls of inc_account_nonce for the account; every admitted task is
\* in a bucket, held by a call in progress or dispatched, and every task in
\* a bucket has a nonce below its sender's next nonce.
C17_NonceAccountingAmended ==
    /\ \A a \in AccountId :
           NextNonce[a] = Cardinality(PendingOf(a)) + Cardinality(UnreportedOf(a))
                          + Cardinality(EventsOf(a)) + bumps[a]
    /\ \A i \in 1..Len(admitted) :
           \/ admitted[i] \in Range(Dispatched)
           \/ admitted[i] \in HeldInRun
           \/ PlacesOf(admitted[i]) # {}
    /\ \A h \in BlockNumber :
           \A t \in Range(Vec(TasksByBlock[h])) : t.nonce < NextNonce[t.sender]

C17_Witness ==
    \E a \in AccountId :
        /\ bumps[a] = 1
        /\ frame.active /\ frame.dispatching
        /\ Cardinality(UnreportedOf(a)) = 1
        /\ Cardinality(PendingOf(a)) = 0
        /\ Cardinality(EventsOf(a)) = 0
        /\ NextNonce[a] = 2

\* C13: with the hook called once for each height in turn, every admitted
\* task is eventually dispatched, whatever block_number it was admitted with.
C13_EveryTaskDispatched ==
    \A t \in Task :
        [](t \in Range(admitted) => <>(t \in Range(Dispatched)))

\* C15: every admitted task not yet dispatched (and not held by a call of the
\* hook in progress) is in exactly one place of the buckets: in the bucket of
\* its block_number while the hook has not been called for that height, and
\* in the bucket of key 0 afterwards.
C15_ExactlyOneBucket ==
    \A i \in 1..Len(admitted) :
        LET t == admitted[i]
        IN (t \notin Range(Dispatched) /\ t \notin HeldInRun) =>
             /\ Cardinality(PlacesOf(t)) = 1
             /\ \A pl \in PlacesOf(t) :
                    pl[1] = IF t.block_number > current_block
                            THEN t.block_number ELSE 0

\* C18: while a call offchain_worker(h) is in progress the tasks it has
\* dispatched are the first of those that were in bucket h when it began, in
\* order; a task admitted while it is in progress is not among the tasks it
\* dispatches, and bucket h holds only tasks admitted since it began. The
\* call takes the whole bucket and leaves none.
C18_SnapshotUnderReentrancy ==
    /\ [](\A n \in 1..Len(AllFrames) :
             LET f == AllFrames[n]
             IN /\ \A k \in 1..Len(f.tasks) :
                       IF k <= Begun(f)
                       THEN /\ DispatchPos(f.tasks[k]) > f.sink0
                            /\ sink[DispatchPos(f.tasks[k])].at = f.height
                            /\ k > 1 => DispatchPos(f.tasks[k - 1]) <
                                            DispatchPos(f.tasks[k])
                       ELSE f.tasks[k] \notin Range(Dispatched)
                /\ \A i \in (f.admitted0 + 1)..Len(admitted) :
                       admitted[i] \notin Range(f.tasks)
                /\ \A t \in Range(Vec(TasksByBlock[f.height])) :
                       \E i \in (f.admitted0 + 1)..Len(admitted) : admitted[i] = t)
    /\ [][ (frame'.active /\ frame' # frame /\ Begun(frame') = 0 /\
            Len(callers') >= Len(callers)) =>
              /\ frame'.tasks = Vec(TasksByBlock[frame'.height])
              /\ TasksByBlock'[frame'.height] = None ]_vars

C18_Witness ==
    /\ frame.active
    /\ frame.dispatching
    /\ last.op = "schedule_task"
    /\ last.result = "Ok"
    /\ last.task[1].block_number = frame.height
    /\ events = <<>>
    /\ TasksByBlock[frame.height] = Some(<<last.task[1]>>)

\* the living-switch condition of account g, as it stood for a call made in
\* the current block with the timestamp ts
ConditionSatisfied(g, ts) ==
    LET c == LivingSwitchConds[g]
    IN \/ c.kind = "BlockHeight" /\ current_block > c.arg
       \/ c.kind = "Timestamp" /\ c.arg > ts
       \/ c.kind = "ClockInInterval" /\ current_block - LastClockIn[g] > c.arg

\* C19: withdraw(grantor, asset) makes a transfer or deposits the Withdraw
\* event only if the grantor's condition is satisfied, the balance is above
\* zero and the grantor has a beneficiary; under the condition None it fails
\* with "not withdrawable yet"; every transfer goes from the grantor to one
\* of the grantor's beneficiaries.
C19_WithdrawGuard ==
    fund_last.op = "withdraw" =>
        LET g == fund_last.grantor[1]
        IN /\ (fund_last.transfers # <<>> \/ fund_last.events # <<>>
                  \/ fund_last.result = "Ok") =>
                 /\ ConditionSatisfied(g, fund_last.timestamp)
                 /\ fund_last.total_amount > 0
                 /\ Len(Beneficiaries[g]) > 0
           /\ LivingSwitchConds[g] = CondNone =>
                 fund_last.result = "not withdrawable yet"
           /\ \A k \in 1..Len(fund_last.transfers) :
                 /\ fund_last.transfers[k].from = g
                 /\ \E i \in 1..Len(Beneficiaries[g]) :
                        Beneficiaries[g][i].address = fund_last.transfers[k].to
           /\ \A k \in 1..Len(fund_last.events) :
                 fund_last.events[k] = [kind |-> "Withdraw", who |-> g]

C19_Witness ==
    /\ fund_last.op = "withdraw"
    /\ fund_last.result = "Ok"
    /\ Len(fund_last.transfers) = 2
    /\ fund_last.transfers[1].to = "bob"
    /\ fund_last.transfers[2].to = "alice"
    /\ fund_last.events = <<[kind |-> "Withdraw", who |-> "alice"]>>

\* C20: clock_in at block b sets LastClockIn of the caller to b, and under
\* the condition ClockInInterval(i) a withdraw for that grantor at a block n
\* with n - b <= i fails and transfers nothing.
C20_ClockInHoldsWithdraw ==
    /\ fund_last.op = "clock_in" =>
           LastClockIn[fund_last.grantor[1]] = current_block
    /\ fund_last.op = "withdraw" =>
           LET g == fund_last.grantor[1]
               c == LivingSwitchConds[g]
           IN (c.kind = "ClockInInterval" /\
               current_block - LastClockIn[g] <= c.arg) =>
                  /\ fund_last.result = "not withdrawable yet"
                  /\ fund_last.transfers = <<>>
                  /\ fund_last.events = <<>>

C20_Witness ==
    /\ fund_last.op = "withdraw"
    /\ fund_last.result = "not withdrawable yet"
    /\ LivingSwitchConds[fund_last.grantor[1]] =
           [kind |-> "ClockInInterval", arg |-> 1]
    /\ LastClockIn[fund_last.grantor[1]] = 1
    /\ current_block = 2
    /\ fund_last.total_amount > 0
    /\ Len(Beneficiaries[fund_last.grantor[1]]) > 0
====
